---- MODULE Spec2Model ----
(***************************************************************************)
(* Model of the launcher / repack lifecycle of src/main.go.                *)
(*                                                                         *)
(* Three goroutines of the launcher process are modelled (main, the signal *)
(* goroutine started by main, the watcher started by startDevServer),      *)
(* together with the goroutine exec.CommandContext starts to kill the      *)
(* child once the context is done, the child process itself and the        *)
(* host that delivers termination signals.  A step of the model is one     *)
(* statement (or one blocking operation) of one goroutine, so every        *)
(* interleaving the Go scheduler allows is a behaviour of Spec.            *)
(***************************************************************************)
EXTENDS Integers, Sequences, FiniteSets, TLC

\* ------------------------------------------------------------------ bounds
\* Number of distinct byte contents the project store can take.
NumContents == 3
\* Number of termination signals the host sends during one run.
MaxSignals == 2

\* ------------------------------------------------------- program constants
\* Contents of the embedded project.db (projectFiles), as a content id.
EmbeddedDB == 0

Contents == 0 .. (NumContents - 1)

\* A file is modelled by the sequence of its contents: <<>> when the path
\* does not exist, <<c>> when it exists with contents c.
NoFile == <<>>
File(c) == <<c>>

\* The self-contained executable: the launcher with its embedded runtime
\* binaries, dependency archive and server script (main.go:25-43), and
\* project store c.
Artifact(c) == <<"artifact", c>>

\* runtime.GOOS / runtime.GOARCH values the build can have.
GOOSValues == {"linux", "darwin", "windows", "freebsd"}
GOARCHValues == {"amd64", "arm64", "386"}

VARIABLES
    goos,          \* runtime.GOOS
    goarch,        \* runtime.GOARCH
    mainPc,        \* position of the main goroutine
    sigPc,         \* position of the signal goroutine (main.go:69-74)
    sigChan,       \* number of signals buffered in channel c (capacity 1)
    signalsSent,   \* signals the host has sent so far
    cancelled,     \* env.ctx is done
    tempDirExists, \* env.tempDir exists on disk
    wsFiles,       \* names extracted into the workspace besides project.db
    dbFile,        \* the file env.dbPath
    dbModified,    \* env.dbModified
    child,         \* the child runtime process
    watcherPc,     \* position of monitorDatabaseChanges
    initialHash,   \* local initialHash of monitorDatabaseChanges
    updatedDB,     \* local updatedDB of repackBinary
    repackResult,  \* what repackBinary returned to Shutdown
    sideFile,      \* the file originalBin + ".updated.db"
    binFile,       \* the file env.originalBin, the running executable
    removeResult,  \* what os.RemoveAll returned to Shutdown
    fatalErr,      \* the error main passed to log.Fatalf
    exited,        \* the launcher process has exited
    exitCode,      \* its exit code
    removals,      \* history: successful removals of an existing workspace
    storeChanged,  \* history: the child changed the bytes of the store
    tickedSinceWrite, \* history: a watcher poll ran after the last rewrite
    readHash,      \* history: the fingerprint the watcher read last
    pollDiverged,  \* history: a poll read another fingerprint than recorded
    dbAtSignal,    \* history: the store file when the signal was received
    umask,         \* the process's file mode creation mask
    archive,       \* the entries of node_modules.tar.gz, in tape order
    tapePos,       \* entries tarReader.Next() has returned so far
    tree,          \* the host's directory tree: path -> node
    archPc,        \* position of the extraction loop of extractNodeModules
    srcTree        \* the directory tree the dependency archive was made of

vars == <<goos, goarch, mainPc, sigPc, sigChan, signalsSent, cancelled,
          tempDirExists, wsFiles, dbFile, dbModified, child, watcherPc,
          initialHash, updatedDB, repackResult, sideFile, binFile,
          removeResult, fatalErr, exited, exitCode, removals, storeChanged,
          tickedSinceWrite, readHash, pollDiverged, dbAtSignal,
          umask, archive, tapePos, tree, archPc, srcTree>>

platformVars == <<goos, goarch>>
sigVars == <<sigPc, sigChan, signalsSent, dbAtSignal>>
fsVars == <<tempDirExists, wsFiles, dbFile, sideFile, removals>>
watchVars == <<watcherPc, initialHash, dbModified>>
repackVars == <<updatedDB, repackResult>>
exitVars == <<exited, exitCode, fatalErr>>
outVars == <<binFile, removeResult>>
histVars == <<storeChanged, tickedSinceWrite, readHash, pollDiverged>>
archVars == <<umask, archive, tapePos, tree, archPc, srcTree>>
lifecycleVars == <<goos, goarch, mainPc, sigPc, sigChan, signalsSent,
                   cancelled, tempDirExists, wsFiles, dbFile, dbModified,
                   child, watcherPc, initialHash, updatedDB, repackResult,
                   sideFile, binFile, removeResult, fatalErr, exited,
                   exitCode, removals, storeChanged, tickedSinceWrite,
                   readHash, pollDiverged, dbAtSignal>>

\* ------------------------------------------------------------ fingerprints
\* hex.EncodeToString(sha256.Sum256(data)): a non-empty string, different
\* for different data (collision resistance).
Sha256Hex(c) == <<"sha256", c>>
\* The empty string getDatabaseHash returns when the read fails.
EmptyString == <<>>

\* getDatabaseHash: readOk is whether os.ReadFile succeeded.
getDatabaseHash(f, readOk) ==
    IF f = NoFile \/ ~readOk THEN EmptyString ELSE Sha256Hex(f[1])

Init ==
    /\ goos \in GOOSValues
    /\ goarch \in GOARCHValues
    /\ mainPc = "NewDevEnvironment"
    /\ sigPc = "notStarted"
    /\ sigChan = 0
    /\ signalsSent = 0
    /\ cancelled = FALSE
    /\ tempDirExists = FALSE
    /\ wsFiles = {}
    /\ dbFile = NoFile
    /\ dbModified = FALSE
    /\ child = "none"
    /\ watcherPc = "notStarted"
    /\ initialHash = EmptyString
    /\ updatedDB = NoFile
    /\ repackResult = "none"
    /\ sideFile = NoFile
    /\ binFile = Artifact(EmbeddedDB)
    /\ removeResult = "none"
    /\ fatalErr = "none"
    /\ exited = FALSE
    /\ exitCode = 0
    /\ removals = 0
    /\ storeChanged = FALSE
    /\ tickedSinceWrite = FALSE
    /\ readHash = EmptyString
    /\ pollDiverged = FALSE
    /\ dbAtSignal = NoFile
    /\ umask = "0022"
    /\ archive = <<>>
    /\ tapePos = 0
    /\ tree = <<>>
    /\ archPc = "idle"
    /\ srcTree = <<>>

\* log.Fatalf(err): os.Exit(1), no deferred or cleanup code runs.
Fatal(err) ==
    /\ exited' = TRUE
    /\ exitCode' = 1
    /\ fatalErr' = err
    /\ mainPc' = "fatal"

\* main.go:60-63 with NewDevEnvironment (85-108).
\*   mkdirOk: os.MkdirTemp succeeded;  exeOk: os.Executable succeeded.
NewDevEnvironment ==
    /\ ~exited
    /\ mainPc = "NewDevEnvironment"
    /\ \E mkdirOk \in BOOLEAN, exeOk \in BOOLEAN :
        IF ~mkdirOk
        THEN /\ Fatal("failed to create temp dir")
             /\ UNCHANGED tempDirExists
        ELSE /\ tempDirExists' = TRUE
             /\ IF exeOk
                THEN /\ mainPc' = "Notify"
                     /\ UNCHANGED exitVars
                ELSE Fatal("failed to get executable path")
    /\ UNCHANGED <<platformVars, archVars, outVars,
                   sigVars, cancelled, wsFiles, dbFile,
                   sideFile, removals, watchVars, child, repackVars,
                   histVars>>

\* main.go:65-74: the signal channel (capacity 1), signal.Notify and the
\* goroutine that waits for a signal.
SetupSignals ==
    /\ ~exited
    /\ mainPc = "Notify"
    /\ mainPc' = "extractNodeBinary"
    /\ sigPc' = "recv"
    /\ UNCHANGED <<platformVars, archVars, outVars,
                   sigChan, signalsSent, dbAtSignal, cancelled,
                   fsVars, watchVars, child, repackVars, exitVars,
                   histVars>>

\* os.WriteFile(filepath.Join(env.tempDir, name), data, perm) on the set of
\* workspace files: an existing file of that name is replaced.
WriteFile(files, name, data, perm) ==
    {f \in files : f.name # name} \cup
        {[name |-> name, data |-> data, perm |-> perm]}

\* A switch whose darwin case tests the architecture the wrong way round.
binaryPathDarwinSwapped(os, arch) ==
    CASE os = "linux" ->
            IF arch = "arm64" THEN "binaries/node-linux-arm64"
                              ELSE "binaries/node-linux-x64"
      [] os = "darwin" ->
            IF arch = "arm64" THEN "binaries/node-darwin-x64"
                              ELSE "binaries/node-darwin-arm64"
      [] os = "windows" ->
            IF arch = "arm64" THEN "binaries/node-windows-arm64.exe"
                              ELSE "binaries/node-windows-x64.exe"
      [] OTHER -> ""

\* The switch of extractNodeBinary (main.go:149-170): the embedded path
\* chosen for a platform, or "" where the function returns the
\* unsupported-platform error.
binaryPath(os, arch) ==
    CASE os = "linux" ->
            IF arch = "arm64" THEN "binaries/node-linux-arm64"
                              ELSE "binaries/node-linux-x64"
      [] os = "darwin" ->
            IF arch = "arm64" THEN "binaries/node-darwin-arm64"
                              ELSE "binaries/node-darwin-x64"
      [] os = "windows" ->
            IF arch = "arm64" THEN "binaries/node-windows-arm64.exe"
                              ELSE "binaries/node-windows-x64.exe"
      [] OTHER -> ""

\* env.nodeExePath relative to env.tempDir (main.go:181-184).
nodeExeName(os) == IF os = "windows" THEN "node.exe" ELSE "node"

\* Start step 1 (main.go:114-116) with extractNodeBinary (145-192).
extractNodeBinary ==
    /\ ~exited
    /\ mainPc = "extractNodeBinary"
    /\ \E writeOk \in BOOLEAN :
        IF binaryPath(goos, goarch) = "" \/ ~tempDirExists \/ ~writeOk
        THEN /\ Fatal(IF binaryPath(goos, goarch) = ""
                      THEN "unsupported platform"
                      ELSE "failed to write Node binary")
             /\ UNCHANGED wsFiles
        ELSE /\ wsFiles' = WriteFile(wsFiles, nodeExeName(goos),
                                     binaryPath(goos, goarch), "0755")
             /\ mainPc' = "extractDatabase"
             /\ UNCHANGED exitVars
    /\ UNCHANGED <<platformVars, archVars, outVars,
                   sigVars, cancelled, tempDirExists, dbFile,
                   sideFile, removals, watchVars, child, repackVars,
                   histVars>>

\* Start step 2 (main.go:119-121) with extractDatabase (194-209).
extractDatabase ==
    /\ ~exited
    /\ mainPc = "extractDatabase"
    /\ \E writeOk \in BOOLEAN :
        IF ~tempDirExists \/ ~writeOk
        THEN /\ Fatal("failed to write database")
             /\ UNCHANGED dbFile
        ELSE /\ dbFile' = File(EmbeddedDB)
             /\ mainPc' = "extractNodeModules"
             /\ UNCHANGED exitVars
    /\ UNCHANGED <<platformVars, archVars, outVars,
                   sigVars, cancelled, tempDirExists, wsFiles,
                   sideFile, removals, watchVars, child, repackVars,
                   histVars>>

\* Start step 3 (main.go:124-126) with extractNodeModules (211-273).  The
\* archive is not empty, and os.MkdirAll creates env.tempDir again when it
\* is missing.
extractNodeModules ==
    /\ ~exited
    /\ mainPc = "extractNodeModules"
    /\ \E extractOk \in BOOLEAN :
        IF ~extractOk
        THEN /\ Fatal("failed to extract node_modules")
             /\ UNCHANGED <<wsFiles, tempDirExists>>
        ELSE /\ tempDirExists' = TRUE
             /\ wsFiles' = WriteFile(wsFiles, "node_modules",
                                     "node_modules.tar.gz", "0755")
             /\ mainPc' = "extractDevServer"
             /\ UNCHANGED exitVars
    /\ UNCHANGED <<platformVars, archVars, outVars,
                   sigVars, cancelled, dbFile, sideFile,
                   removals, watchVars, child, repackVars, histVars>>

\* A Start that logs a failed extraction of the server script and goes on
\* to launch the child.
extractDevServerIgnoringError ==
    /\ ~exited
    /\ mainPc = "extractDevServer"
    /\ \E writeOk \in BOOLEAN :
        IF ~tempDirExists \/ ~writeOk
        THEN UNCHANGED wsFiles
        ELSE wsFiles' = WriteFile(wsFiles, "dev-server.ts",
                                  "dev-server.ts", "0644")
    /\ mainPc' = "startDevServer"
    /\ UNCHANGED <<platformVars, archVars, outVars,
                   sigVars, cancelled, tempDirExists, dbFile,
                   sideFile, removals, watchVars, child, repackVars,
                   histVars, exitVars>>

\* Start step 4 (main.go:129-131) with extractDevServer (275-290).
extractDevServer ==
    /\ ~exited
    /\ mainPc = "extractDevServer"
    /\ \E writeOk \in BOOLEAN :
        IF ~tempDirExists \/ ~writeOk
        THEN /\ Fatal("failed to write dev server")
             /\ UNCHANGED wsFiles
        ELSE /\ wsFiles' = WriteFile(wsFiles, "dev-server.ts",
                                     "dev-server.ts", "0644")
             /\ mainPc' = "startDevServer"
             /\ UNCHANGED exitVars
    /\ UNCHANGED <<platformVars, archVars, outVars,
                   sigVars, cancelled, tempDirExists, dbFile,
                   sideFile, removals, watchVars, child, repackVars,
                   histVars>>

\* A startDevServer that builds the command with exec.Command, so that the
\* launch does not look at env.ctx.
startDevServerWithoutContext ==
    /\ ~exited
    /\ mainPc = "startDevServer"
    /\ \E launchOk \in BOOLEAN :
        IF \/ ~launchOk
           \/ ~(\E f \in wsFiles : f.name = nodeExeName(goos))
        THEN /\ Fatal("failed to start dev server")
             /\ UNCHANGED <<child, watcherPc>>
        ELSE /\ child' = "running"
             /\ watcherPc' = "init"
             /\ mainPc' = "waitCtx"
             /\ UNCHANGED exitVars
    /\ UNCHANGED <<platformVars, archVars, outVars,
                   sigVars, cancelled, fsVars, initialHash,
                   dbModified, repackVars, histVars>>

\* Start step 5 (main.go:134-143) with startDevServer (292-316).
\* cmd.Start fails when env.ctx is already done, when the runtime binary is
\* not there to execute, or when the host refuses the launch.  On success
\* the child runs, the watcher goroutine is started and Start returns, so
\* main goes on to block on env.ctx.Done().
startDevServer ==
    /\ ~exited
    /\ mainPc = "startDevServer"
    /\ \E launchOk \in BOOLEAN :
        IF \/ cancelled
           \/ ~launchOk
           \/ ~(\E f \in wsFiles : f.name = nodeExeName(goos))
        THEN /\ Fatal(IF cancelled THEN "context canceled"
                      ELSE "failed to start dev server")
             /\ UNCHANGED <<child, watcherPc>>
        ELSE /\ child' = "running"
             /\ watcherPc' = "init"
             /\ mainPc' = "waitCtx"
             /\ UNCHANGED exitVars
    /\ UNCHANGED <<platformVars, archVars, outVars,
                   sigVars, cancelled, fsVars, initialHash,
                   dbModified, repackVars, histVars>>

\* main.go:82-83: <-env.ctx.Done() returns once the context is cancelled,
\* main returns and the process exits with code 0, whatever the other
\* goroutines are doing.
MainReturn ==
    /\ ~exited
    /\ mainPc = "waitCtx"
    /\ cancelled
    /\ mainPc' = "returned"
    /\ exited' = TRUE
    /\ exitCode' = 0
    /\ UNCHANGED fatalErr
    /\ UNCHANGED <<platformVars, archVars, outVars,
                   sigVars, cancelled, fsVars, watchVars,
                   child, repackVars, histVars>>

\* The host delivers SIGINT/SIGTERM once signal.Notify is in place
\* (main.go:66-67).  The runtime's send to channel c does not block: a
\* signal arriving while the buffer is full is dropped.
Signal ==
    /\ ~exited
    /\ sigPc # "notStarted"
    /\ signalsSent < MaxSignals
    /\ signalsSent' = signalsSent + 1
    /\ sigChan' = 1
    /\ UNCHANGED <<platformVars, archVars, outVars,
                   mainPc, sigPc, dbAtSignal, cancelled, fsVars,
                   watchVars, child, repackVars, exitVars, histVars>>

\* main.go:70-71: <-c in the signal goroutine.
RecvSignal ==
    /\ ~exited
    /\ sigPc = "recv"
    /\ sigChan = 1
    /\ sigChan' = 0
    /\ sigPc' = "cancel"
    /\ dbAtSignal' = dbFile
    /\ UNCHANGED <<platformVars, archVars, outVars,
                   mainPc, signalsSent, cancelled, fsVars,
                   watchVars, child, repackVars, exitVars, histVars>>

\* Shutdown, main.go:352: env.cancel().
ShutdownCancel ==
    /\ ~exited
    /\ sigPc = "cancel"
    /\ cancelled' = TRUE
    /\ sigPc' = "sleep"
    /\ UNCHANGED <<platformVars, archVars, outVars,
                   mainPc, sigChan, signalsSent, dbAtSignal,
                   fsVars, watchVars, child, repackVars, exitVars,
                   histVars>>

\* Shutdown, main.go:355: time.Sleep(2 * time.Second).  The sleep waits for
\* nothing: it returns whatever the child and the watcher have done.
ShutdownSleep ==
    /\ ~exited
    /\ sigPc = "sleep"
    /\ sigPc' = "checkFlag"
    /\ UNCHANGED <<platformVars, archVars, outVars,
                   mainPc, sigChan, signalsSent, dbAtSignal,
                   cancelled, fsVars, watchVars, child, repackVars, exitVars,
                   histVars>>

\* Shutdown, main.go:358: if env.dbModified.
ShutdownCheckFlag ==
    /\ ~exited
    /\ sigPc = "checkFlag"
    /\ sigPc' = IF dbModified THEN "repackRead" ELSE "removeAll"
    /\ UNCHANGED <<platformVars, archVars, outVars,
                   mainPc, sigChan, signalsSent, dbAtSignal,
                   cancelled, fsVars, watchVars, child, repackVars, exitVars,
                   histVars>>

\* repackBinary, main.go:383-386: os.ReadFile(env.dbPath).
RepackRead ==
    /\ ~exited
    /\ sigPc = "repackRead"
    /\ \E readOk \in BOOLEAN :
        IF dbFile = NoFile \/ ~readOk
        THEN /\ repackResult' = "readError"
             /\ sigPc' = "removeAll"
             /\ UNCHANGED updatedDB
        ELSE /\ updatedDB' = dbFile
             /\ sigPc' = "repackWrite"
             /\ UNCHANGED repackResult
    /\ UNCHANGED <<platformVars, archVars, outVars,
                   mainPc, sigChan, signalsSent, dbAtSignal,
                   cancelled, fsVars, watchVars, child, exitVars,
                   histVars>>

\* The executable's path, env.originalBin (main.go:97).
OriginalBin == <<"portable-dev">>

\* A repack that writes over the running executable.
backupPathInPlace(bin) == bin

\* backupPath of repackBinary (main.go:396).
backupPath(bin) == bin \o <<".updated.db">>

\* A Shutdown that returns the error of a failed repack at once, without
\* the removal of the workspace.
RepackWriteAbortOnError ==
    /\ ~exited
    /\ sigPc = "repackWrite"
    /\ \E writeOk \in BOOLEAN :
        IF writeOk
        THEN /\ sideFile' = updatedDB
             /\ repackResult' = "ok"
             /\ sigPc' = "removeAll"
        ELSE /\ repackResult' = "writeError"
             /\ sigPc' = "osExit"
             /\ UNCHANGED sideFile
    /\ UNCHANGED <<platformVars, archVars, outVars,
                   mainPc, sigChan, signalsSent, dbAtSignal,
                   cancelled, tempDirExists, wsFiles, dbFile, removals,
                   watchVars, child, updatedDB, exitVars, histVars>>

\* repackBinary, main.go:396-404: os.WriteFile(backupPath, updatedDB, 0644).
RepackWrite ==
    /\ ~exited
    /\ sigPc = "repackWrite"
    /\ \E writeOk \in BOOLEAN :
        IF writeOk
        THEN /\ sideFile' = IF backupPath(OriginalBin) = OriginalBin
                            THEN sideFile ELSE updatedDB
             /\ binFile' = IF backupPath(OriginalBin) = OriginalBin
                           THEN updatedDB ELSE binFile
             /\ repackResult' = "ok"
        ELSE /\ repackResult' = "writeError"
             /\ UNCHANGED <<sideFile, binFile>>
    /\ sigPc' = "removeAll"
    /\ UNCHANGED <<platformVars, archVars, removeResult,
                   mainPc, sigChan, signalsSent, dbAtSignal,
                   cancelled, tempDirExists, wsFiles, dbFile, removals,
                   watchVars, child, updatedDB, exitVars, histVars>>

\* Shutdown, main.go:368-375: os.RemoveAll(env.tempDir); a failure is only
\* printed.
ShutdownRemoveAll ==
    /\ ~exited
    /\ sigPc = "removeAll"
    /\ \E removeOk \in BOOLEAN :
        IF removeOk
        THEN /\ tempDirExists' = FALSE
             /\ wsFiles' = {}
             /\ dbFile' = NoFile
             /\ removals' = IF tempDirExists THEN removals + 1 ELSE removals
             /\ removeResult' = "ok"
        ELSE /\ removeResult' = "error"
             /\ UNCHANGED <<tempDirExists, wsFiles, dbFile, removals>>
    /\ sigPc' = "osExit"
    /\ UNCHANGED <<platformVars, archVars, binFile,
                   mainPc, sigChan, signalsSent, dbAtSignal,
                   cancelled, sideFile, watchVars, child, repackVars,
                   exitVars, histVars>>

\* main.go:73: os.Exit(0) after Shutdown has returned.
SignalExit ==
    /\ ~exited
    /\ sigPc = "osExit"
    /\ sigPc' = "exited"
    /\ exited' = TRUE
    /\ exitCode' = 0
    /\ UNCHANGED fatalErr
    /\ UNCHANGED <<platformVars, archVars, outVars,
                   mainPc, sigChan, signalsSent, dbAtSignal,
                   cancelled, fsVars, watchVars, child, repackVars,
                   histVars>>

\* The child runtime (src/dev-server.js opens the store given as argv[2])
\* rewrites the store file with other bytes.
ChildWrite ==
    /\ ~exited
    /\ child = "running"
    /\ dbFile # NoFile
    /\ \E c \in Contents \ {dbFile[1]} :
        dbFile' = File(c)
    /\ storeChanged' = TRUE
    /\ tickedSinceWrite' = FALSE
    /\ UNCHANGED <<platformVars, archVars, outVars,
                   mainPc, sigVars, cancelled, tempDirExists,
                   wsFiles, sideFile, removals, watchVars, child, repackVars,
                   exitVars, readHash, pollDiverged>>

\* The child exits by itself: a crash, process.exit (dev-server.js:69-80),
\* or the terminal's interrupt reaching it directly.
ChildExit ==
    /\ ~exited
    /\ child = "running"
    /\ child' = "exited"
    /\ UNCHANGED <<platformVars, archVars, outVars,
                   mainPc, sigVars, cancelled, fsVars,
                   watchVars, repackVars, exitVars, histVars>>

\* exec.CommandContext (main.go:296): once env.ctx is done, the goroutine
\* cmd.Start started kills the child.  Nothing in the launcher waits for it.
KillChild ==
    /\ ~exited
    /\ cancelled
    /\ child = "running"
    /\ child' = "killed"
    /\ UNCHANGED <<platformVars, archVars, outVars,
                   mainPc, sigVars, cancelled, fsVars,
                   watchVars, repackVars, exitVars, histVars>>

\* monitorDatabaseChanges, main.go:319: initialHash := env.getDatabaseHash().
WatcherInit ==
    /\ ~exited
    /\ watcherPc = "init"
    /\ \E readOk \in BOOLEAN :
        /\ initialHash' = getDatabaseHash(dbFile, readOk)
        /\ readHash' = getDatabaseHash(dbFile, readOk)
    /\ watcherPc' = "loop"
    /\ UNCHANGED <<platformVars, archVars, outVars,
                   mainPc, sigVars, cancelled, fsVars,
                   dbModified, child, repackVars, exitVars, storeChanged,
                   tickedSinceWrite, pollDiverged>>

\* A watcher that recomputes the flag at every poll instead of only ever
\* setting it.
PollFlagRecomputed(flag, currentHash, lastHash) ==
    currentHash # lastHash

\* main.go:330-333: the flag after a poll that read currentHash while
\* lastHash was recorded.
PollFlag(flag, currentHash, lastHash) ==
    IF currentHash # lastHash THEN TRUE ELSE flag

\* A watcher that sets the flag on divergence and keeps comparing against
\* the fingerprint of launch.
PollHashKeepsFirst(currentHash, lastHash) == lastHash

\* main.go:330-333: the recorded fingerprint after that poll.
PollHash(currentHash, lastHash) ==
    IF currentHash # lastHash THEN currentHash ELSE lastHash

\* monitorDatabaseChanges, main.go:328-333: the ticker case of the select.
WatcherTick ==
    /\ ~exited
    /\ watcherPc = "loop"
    /\ \E readOk \in BOOLEAN :
        LET currentHash == getDatabaseHash(dbFile, readOk) IN
        /\ dbModified' = PollFlag(dbModified, currentHash, initialHash)
        /\ initialHash' = PollHash(currentHash, initialHash)
        /\ readHash' = currentHash
        /\ pollDiverged' = (pollDiverged \/ currentHash # initialHash)
    /\ tickedSinceWrite' = TRUE
    /\ UNCHANGED <<platformVars, archVars, outVars,
                   mainPc, sigVars, cancelled, fsVars,
                   watcherPc, child, repackVars, exitVars, storeChanged>>

\* monitorDatabaseChanges, main.go:326-327: the ctx.Done() case of the
\* select.  When a tick is ready too, select takes either case.
WatcherReturn ==
    /\ ~exited
    /\ watcherPc = "loop"
    /\ cancelled
    /\ watcherPc' = "done"
    /\ UNCHANGED <<platformVars, archVars, outVars,
                   mainPc, sigVars, cancelled, fsVars,
                   initialHash, dbModified, child, repackVars, exitVars,
                   histVars>>

MainStep ==
    \/ NewDevEnvironment
    \/ SetupSignals
    \/ extractNodeBinary
    \/ extractDatabase
    \/ extractNodeModules
    \/ extractDevServer
    \/ startDevServer
    \/ MainReturn

ShutdownStep ==
    \/ RecvSignal
    \/ ShutdownCancel
    \/ ShutdownSleep
    \/ ShutdownCheckFlag
    \/ RepackRead
    \/ RepackWrite
    \/ ShutdownRemoveAll
    \/ SignalExit

WatcherStep ==
    \/ WatcherInit
    \/ WatcherTick
    \/ WatcherReturn

Next ==
    \/ NewDevEnvironment
    \/ SetupSignals
    \/ extractNodeBinary
    \/ extractDatabase
    \/ extractNodeModules
    \/ extractDevServer
    \/ startDevServer
    \/ MainReturn
    \/ Signal
    \/ RecvSignal
    \/ ShutdownCancel
    \/ ShutdownSleep
    \/ ShutdownCheckFlag
    \/ RepackRead
    \/ RepackWrite
    \/ ShutdownRemoveAll
    \/ SignalExit
    \/ ChildWrite
    \/ ChildExit
    \/ KillChild
    \/ WatcherInit
    \/ WatcherTick
    \/ WatcherReturn

Spec == Init /\ [][Next]_vars

\* The Go scheduler runs every runnable goroutine eventually and the kernel
\* delivers the kill; the host's signals and the child's own writes and
\* exits are not obliged to happen.  Between two ticks the ctx.Done() case
\* is the only ready case of the watcher's select, so a cancelled watcher
\* that keeps running does return.
FairSpec ==
    /\ Spec
    /\ WF_vars(MainStep)
    /\ WF_vars(ShutdownStep)
    /\ WF_vars(WatcherStep)
    /\ WF_vars(WatcherReturn)
    /\ WF_vars(KillChild)

\* ------------------------------------------------ dependency archive
\* Paths are sequences of segments from the root of the host's file system.
\* env.tempDir, as os.MkdirTemp("", "portable-dev-*") makes it (main.go:87).
TempDir == <<"tmp", "portable-dev">>

\* Longest archive the model extracts.
MaxEntries == 2

\* header.Name values, split at the separators.
EntryNames ==
    { <<"node_modules">>,
      <<"node_modules", "pkg">>,
      <<"node_modules", "pkg", "index.js">>,
      <<"project.db">>,
      <<"..", "evil">> }

\* Payloads and header.Mode values of the entries.
EntryData == { <<1>>, <<2, 2>> }
EntryModes == {"0644", "0755", "0666"}

\* tar headers: a directory (tar.TypeDir) or anything else, which
\* extractNodeModules writes as a file.
Entries ==
    [typeflag : {"dir"}, name : EntryNames, mode : {"0755"}, data : {<<>>}]
    \cup [typeflag : {"file"}, name : EntryNames, mode : EntryModes,
          data : EntryData]

\* Sequences of at most n elements of S.
SeqUpTo(S, n) == UNION {[1 .. k -> S] : k \in 0 .. n}

\* The archives the model extracts.
Archives == SeqUpTo(Entries, MaxEntries)

\* filepath.Clean on the segments of a rooted path: "." is dropped and ".."
\* removes the segment before it (at the root, ".." is dropped).
RECURSIVE CleanFrom(_, _)
CleanFrom(acc, segs) ==
    IF segs = <<>> THEN acc
    ELSE LET seg == Head(segs) IN
         CleanFrom(IF seg = "." THEN acc
                   ELSE IF seg = ".."
                        THEN (IF acc = <<>> THEN acc
                              ELSE SubSeq(acc, 1, Len(acc) - 1))
                        ELSE Append(acc, seg),
                   Tail(segs))

\* filepath.Join(dir, name) (main.go:243).
Join(dir, name) == CleanFrom(<<>>, dir \o name)

\* filepath.Dir(path) (main.go:254).
Dir(path) == IF path = <<>> THEN path ELSE SubSeq(path, 1, Len(path) - 1)

\* path is dir or lies beneath it.
IsUnder(path, dir) ==
    /\ Len(path) >= Len(dir)
    /\ SubSeq(path, 1, Len(dir)) = dir

DirNode == [kind |-> "dir", mode |-> "0755", data |-> <<>>]
FileNode(mode, data) == [kind |-> "file", mode |-> mode, data |-> data]

IsDir(t, path) ==
    path = <<>> \/ (path \in DOMAIN t /\ t[path].kind = "dir")
IsFile(t, path) == path \in DOMAIN t /\ t[path].kind = "file"

\* The non-empty prefixes of a path.
Prefixes(path) == {SubSeq(path, 1, k) : k \in 1 .. Len(path)}

\* os.Mkdir instead of os.MkdirAll: the parent has to be there and the
\* path must not exist yet.
MkdirOk(t, path) ==
    /\ IsDir(t, Dir(path))
    /\ path \notin DOMAIN t

\* os.MkdirAll(path, 0755) fails when path or one of its ancestors is a
\* file, and creates nothing then.
MkdirAllOk(t, path) == \A q \in Prefixes(path) : ~IsFile(t, q)

\* os.MkdirAll(path, 0755) when it succeeds: the missing directories of the
\* path are created, the existing ones are left as they are.
MkdirAll(t, path) ==
    [q \in DOMAIN t \cup Prefixes(path) |->
        IF q \in DOMAIN t THEN t[q] ELSE DirNode]

\* The permission bits a new file gets: header.Mode without the bits of the
\* process's umask.
ApplyUmask(mode, mask) ==
    IF mask = "0022" /\ mode = "0666" THEN "0644" ELSE mode

\* A write of data at offset 0 of a file opened without O_TRUNC: bytes of
\* the old contents beyond the new data stay.
WriteAt0(old, data) ==
    IF Len(old) > Len(data)
    THEN data \o SubSeq(old, Len(data) + 1, Len(old))
    ELSE data

\* os.OpenFile(path, O_CREATE|O_WRONLY, mode) followed by io.Copy
\* (main.go:259-268): a new file gets the mode, an existing one keeps its
\* mode and is overwritten from its start.
CreateAndCopy(t, path, mode, data, mask) ==
    [q \in DOMAIN t \cup {path} |->
        IF q # path THEN t[q]
        ELSE IF IsFile(t, path)
             THEN FileNode(t[path].mode, WriteAt0(t[path].data, data))
             ELSE FileNode(ApplyUmask(mode, mask), data)]

\* The tree once NewDevEnvironment, extractNodeBinary and extractDatabase
\* have run: the host's temporary directory, the workspace, the runtime
\* binary and the project store.
WorkspaceTree(os) ==
    LET paths == { <<"tmp">>, TempDir, TempDir \o <<nodeExeName(os)>>,
                   TempDir \o <<"project.db">> } IN
    [q \in paths |->
        IF q = TempDir \o <<nodeExeName(os)>>
        THEN FileNode("0755", <<7, 7, 7>>)
        ELSE IF q = TempDir \o <<"project.db">>
             THEN FileNode("0644", <<0, 0, 0>>)
             ELSE DirNode]

\* The body of the loop of extractNodeModules (main.go:243-268) for one
\* header: the tree it leaves and whether it returned an error.  ioOk: the
\* host's file system accepts the operations.
extractOne(t, header, mask, ioOk) ==
    LET fullPath == Join(TempDir, header.name) IN
    IF header.typeflag = "dir"
    THEN IF ioOk /\ MkdirAllOk(t, fullPath)
         THEN [failed |-> FALSE, tree |-> MkdirAll(t, fullPath)]
         ELSE [failed |-> TRUE, tree |-> t]
    ELSE IF ~(ioOk /\ MkdirAllOk(t, Dir(fullPath)))
         THEN [failed |-> TRUE, tree |-> t]
         ELSE IF IsDir(MkdirAll(t, Dir(fullPath)), fullPath)
              THEN [failed |-> TRUE, tree |-> MkdirAll(t, Dir(fullPath))]
              ELSE [failed |-> FALSE,
                    tree |-> CreateAndCopy(MkdirAll(t, Dir(fullPath)),
                                           fullPath, header.mode,
                                           header.data, mask)]

\* The loop of extractNodeModules (main.go:233-269) run on a whole tape
\* with a host that accepts every operation: it stops at the first error.
RECURSIVE extractAll(_, _, _)
extractAll(t, tape, mask) ==
    IF tape = <<>> THEN [failed |-> FALSE, tree |-> t]
    ELSE LET r == extractOne(t, Head(tape), mask, TRUE) IN
         IF r.failed THEN r ELSE extractAll(r.tree, Tail(tape), mask)

\* One turn of the loop of extractNodeModules (main.go:233-269) on the
\* entry tarReader.Next() returns.
ExtractEntry ==
    /\ archPc = "extracting"
    /\ tapePos < Len(archive)
    /\ tapePos' = tapePos + 1
    /\ \E ioOk \in BOOLEAN :
        LET r == extractOne(tree, archive[tapePos + 1], umask, ioOk) IN
        /\ tree' = r.tree
        /\ archPc' = IF r.failed THEN "failed" ELSE archPc
    /\ UNCHANGED <<lifecycleVars, umask, archive, srcTree>>

\* tarReader.Next() returns io.EOF: the loop ends and extractNodeModules
\* returns nil (main.go:235-237, 271-272).
ExtractEOF ==
    /\ archPc = "extracting"
    /\ tapePos = Len(archive)
    /\ archPc' = "done"
    /\ UNCHANGED <<lifecycleVars, umask, archive, tapePos, tree, srcTree>>

\* The launcher at the call of extractNodeModules, for any archive.
ArchInit ==
    /\ goos \in {"linux", "windows"}
    /\ goarch = "amd64"
    /\ mainPc = "extractNodeModules"
    /\ sigPc = "recv"
    /\ sigChan = 0
    /\ signalsSent = 0
    /\ cancelled = FALSE
    /\ tempDirExists = TRUE
    /\ wsFiles = WriteFile({}, nodeExeName(goos),
                           binaryPath(goos, goarch), "0755")
    /\ dbFile = File(EmbeddedDB)
    /\ dbModified = FALSE
    /\ child = "none"
    /\ watcherPc = "notStarted"
    /\ initialHash = EmptyString
    /\ updatedDB = NoFile
    /\ repackResult = "none"
    /\ sideFile = NoFile
    /\ binFile = Artifact(EmbeddedDB)
    /\ removeResult = "none"
    /\ fatalErr = "none"
    /\ exited = FALSE
    /\ exitCode = 0
    /\ removals = 0
    /\ storeChanged = FALSE
    /\ tickedSinceWrite = FALSE
    /\ readHash = EmptyString
    /\ pollDiverged = FALSE
    /\ dbAtSignal = NoFile
    /\ umask \in {"0000", "0022"}
    /\ archive \in Archives
    /\ tapePos = 0
    /\ tree = WorkspaceTree(goos)
    /\ archPc = "extracting"
    /\ srcTree = <<>>

ArchNext ==
    \/ ExtractEntry
    \/ ExtractEOF

\* extractNodeModules on every archive of the model.
ArchSpec == ArchInit /\ [][ArchNext]_vars

\* ------------------------------------------------ archive round trip
\* Paths of the source trees, relative to their root.
SourcePaths ==
    { <<"node_modules">>,
      <<"node_modules", "pkg">>,
      <<"node_modules", "pkg", "index.js">> }

\* Permission bits of the directories of a source tree.
DirModes == {"0755", "0700"}

\* The nodes of a source tree.
SourceNodes ==
    [kind : {"dir"}, mode : DirModes, data : {<<>>}]
    \cup [kind : {"file"}, mode : EntryModes, data : EntryData]

\* The directory trees T: every node but the root's children lies in a
\* directory of the tree.
SourceTrees ==
    { t \in UNION {[D -> SourceNodes] : D \in SUBSET SourcePaths} :
        \A q \in DOMAIN t :
            Len(q) > 1 => (Dir(q) \in DOMAIN t /\ t[Dir(q)].kind = "dir") }

\* The order of a depth-first walk: a directory comes before what lies
\* beneath it.
WalkOrder(t) ==
    CHOOSE s \in [1 .. Cardinality(DOMAIN t) -> DOMAIN t] :
        /\ \A i, j \in DOMAIN s : i # j => s[i] # s[j]
        /\ \A i, j \in DOMAIN s : (i < j) => ~IsUnder(s[i], s[j])

\* encode(rootDir): one entry per file and directory of the tree, with its
\* path, permission bits and payload, in the order of the walk.
encode(t) ==
    [k \in 1 .. Cardinality(DOMAIN t) |->
        LET q == WalkOrder(t)[k] IN
        [typeflag |-> t[q].kind, name |-> q, mode |-> t[q].mode,
         data |-> t[q].data]]

\* The empty directory D the archive is extracted into: env.tempDir as
\* os.MkdirTemp made it (main.go:87).
EmptyWorkspaceTree == [q \in {<<"tmp">>, TempDir} |-> DirNode]

\* The tree beneath env.tempDir, with paths relative to it.
ExtractedTree(t) ==
    [q \in {SubSeq(p, Len(TempDir) + 1, Len(p)) :
                p \in {r \in DOMAIN t : IsUnder(r, TempDir) /\ r # TempDir}}
        |-> t[TempDir \o q]]

\* extractNodeModules called on the encoding of a tree, with an empty
\* workspace.
RoundTripInit ==
    /\ goos = "linux"
    /\ goarch = "amd64"
    /\ mainPc = "extractNodeModules"
    /\ sigPc = "recv"
    /\ sigChan = 0
    /\ signalsSent = 0
    /\ cancelled = FALSE
    /\ tempDirExists = TRUE
    /\ wsFiles = {}
    /\ dbFile = NoFile
    /\ dbModified = FALSE
    /\ child = "none"
    /\ watcherPc = "notStarted"
    /\ initialHash = EmptyString
    /\ updatedDB = NoFile
    /\ repackResult = "none"
    /\ sideFile = NoFile
    /\ binFile = Artifact(EmbeddedDB)
    /\ removeResult = "none"
    /\ fatalErr = "none"
    /\ exited = FALSE
    /\ exitCode = 0
    /\ removals = 0
    /\ storeChanged = FALSE
    /\ tickedSinceWrite = FALSE
    /\ readHash = EmptyString
    /\ pollDiverged = FALSE
    /\ dbAtSignal = NoFile
    /\ umask \in {"0000", "0022"}
    /\ srcTree \in SourceTrees
    /\ archive = encode(srcTree)
    /\ tapePos = 0
    /\ tree = EmptyWorkspaceTree
    /\ archPc = "extracting"

RoundTripSpec == RoundTripInit /\ [][ArchNext]_vars

\* ------------------------------------------------------------------ claims
\* The fingerprint of the store as extracted at launch.
H0 == Sha256Hex(EmbeddedDB)

\* C1: no execution exits with the mutation flag set and the repack step
\* not yet run: when the process has exited with dbModified set,
\* repackBinary has returned to Shutdown.
C1_RepackBeforeExit ==
    (exited /\ dbModified) => repackResult # "none"

\* C2: in no state is the child still running while Shutdown is at its
\* read of the store file for repacking.
C2_NoReadWhileChildRuns ==
    ~(~exited /\ sigPc = "repackRead" /\ child = "running")

\* C3: on every exit path the workspace directory has been removed, exactly
\* once, when the process exits.
C3_WorkspaceRemovedOnExit ==
    /\ removals <= 1
    /\ exited => ~tempDirExists

\* C4: Ctrl+C saves changes.  Stated for the exits the signal goroutine
\* makes after Shutdown has returned: if the store's bytes when the signal
\* was received differed from the bytes extracted at launch, the repack
\* output has been written.
C4_CtrlCSavesChanges ==
    (sigPc = "exited" /\ dbAtSignal # NoFile /\ dbAtSignal # File(EmbeddedDB))
        => sideFile # NoFile

\* C5: two termination signals cause exactly one cleanup sequence and one
\* exit: after two signals the workspace is never removed twice, and a
\* clean exit is the one the signal goroutine makes after Shutdown has run
\* to its end.
C5_OneCleanupOneExit ==
    /\ removals <= 1
    /\ (exited /\ exitCode = 0 /\ signalsSent >= 2) => sigPc = "exited"

\* C6: once the child has exited by itself, the launcher eventually runs
\* its shutdown sequence and exits.
C6_ChildExitBeginsShutdown ==
    (child = "exited") ~> exited

\* C7: mutation monotonicity: no step resets dbModified once it is set.
C7_FlagMonotonic ==
    [][dbModified => dbModified']_vars

\* C7 witness: the flag is set, the child has changed the store, and a
\* later poll has recorded the launch fingerprint again.
C7_Witness ==
    /\ dbModified
    /\ storeChanged
    /\ watcherPc = "loop"
    /\ initialHash = H0
    /\ dbFile = File(EmbeddedDB)

\* C8: in a session that is not cancelled, once a watcher tick has run
\* after the store was rewritten to bytes whose fingerprint differs from
\* the launch fingerprint, the mutation flag is set.
C8_FlagWithinOneTick ==
    (~cancelled /\ tickedSinceWrite /\ dbFile # NoFile
        /\ getDatabaseHash(dbFile, TRUE) # H0) => dbModified

\* C9: if the store's bytes never change, the mutation flag is never set
\* and no repack runs or writes a side file, also when a poll fails to read
\* the store.
C9_NoChangeNoRepack ==
    ~storeChanged =>
        (~dbModified /\ repackResult = "none" /\ sideFile = NoFile)

\* C10: the fingerprint the watcher first compares against is the one of
\* the store bytes written at extraction time.  Stated for a first reading
\* that succeeded, before any poll has replaced it.
C10_InitialHashIsExtractionHash ==
    (watcherPc \in {"loop", "done"} /\ ~dbModified
        /\ initialHash # EmptyString) => initialHash = H0

\* C11: cancelling the child returns only after the child has exited (after
\* a cooperative request and, past the grace period, a forced kill): once
\* env.cancel() has returned in Shutdown, the child is not running.
C11_CancelWaitsForChildExit ==
    (~exited /\ sigPc = "sleep") => child # "running"

\* The four extraction steps of Start have written their files.
AllExtracted ==
    /\ \E f \in wsFiles : f.name = nodeExeName(goos)
    /\ dbFile # NoFile
    /\ \E f \in wsFiles : f.name = "node_modules"
    /\ \E f \in wsFiles : f.name = "dev-server.ts"

\* C12: start-up ordering: the child is launched only from a state in which
\* all four extraction steps have written their files, the watcher is
\* started only by a step that leaves the child running, and after a fatal
\* failure of Start no child and no watcher exist.
C12_StartupOrdering ==
    /\ [][(child = "none" /\ child' # "none") => AllExtracted]_vars
    /\ [][(watcherPc = "notStarted" /\ watcherPc' # "notStarted")
             => (child = "none" /\ child' = "running")]_vars
    /\ [](mainPc = "fatal" => (child = "none" /\ watcherPc = "notStarted"))

\* C12 witness: the child was launched and the watcher polls, with every
\* extracted file in place.
C12_Witness ==
    /\ child = "running"
    /\ watcherPc = "loop"
    /\ mainPc = "waitCtx"
    /\ AllExtracted

\* An archive entry whose path has a parent-directory segment.
HasParentSegment(name) == \E k \in 1 .. Len(name) : name[k] = ".."

\* C13: path safety: extraction of an archive with an entry whose path has
\* a parent-directory segment fails, and no file or directory outside the
\* workspace directory is created or written.
C13_PathSafety ==
    /\ \A q \in DOMAIN tree :
          \/ IsUnder(q, TempDir)
          \/ (q \in DOMAIN WorkspaceTree(goos)
                 /\ tree[q] = WorkspaceTree(goos)[q])
    /\ (\E k \in 1 .. tapePos : HasParentSegment(archive[k].name))
          => archPc = "failed"

\* The platforms with an embedded runtime binary (main.go:30-35).
RegisteredPlatforms == {"linux", "darwin", "windows"} \X {"amd64", "arm64"}

\* The embedded runtime binary registered for a platform (main.go:30-35).
RegisteredBinary(os, arch) ==
    CASE <<os, arch>> = <<"linux", "amd64">> -> "binaries/node-linux-x64"
      [] <<os, arch>> = <<"linux", "arm64">> -> "binaries/node-linux-arm64"
      [] <<os, arch>> = <<"darwin", "amd64">> -> "binaries/node-darwin-x64"
      [] <<os, arch>> = <<"darwin", "arm64">> -> "binaries/node-darwin-arm64"
      [] <<os, arch>> = <<"windows", "amd64">>
            -> "binaries/node-windows-x64.exe"
      [] <<os, arch>> = <<"windows", "arm64">>
            -> "binaries/node-windows-arm64.exe"

\* The runtime binary in the workspace, as a set of at most one file.
ExtractedNode == {f \in wsFiles : f.name = nodeExeName(goos)}

\* C14: on a platform with no registered runtime binary, extractNodeBinary
\* fails and writes no runtime binary into the workspace.
C14_UnregisteredPlatformFails ==
    (<<goos, goarch>> \notin RegisteredPlatforms) =>
        (ExtractedNode = {} /\ mainPc \in {"NewDevEnvironment", "Notify",
                                            "extractNodeBinary", "fatal"})

\* C15: on each of the six registered platforms, the runtime binary that
\* extractNodeBinary writes is the one registered for the platform, with
\* executable permission bits, and a successful step has written it.
C15_RegisteredBinarySelected ==
    /\ [](<<goos, goarch>> \in RegisteredPlatforms =>
            \A f \in ExtractedNode :
                /\ f.data = RegisteredBinary(goos, goarch)
                /\ f.perm = "0755")
    /\ [][(<<goos, goarch>> \in RegisteredPlatforms
              /\ mainPc = "extractNodeBinary"
              /\ mainPc' = "extractDatabase")
           => ExtractedNode' # {}]_vars

\* C15 witness: the step has written the runtime binary on darwin/arm64.
C15_Witness ==
    /\ goos = "darwin"
    /\ goarch = "arm64"
    /\ mainPc = "extractDatabase"
    /\ ExtractedNode =
          {[name |-> "node", data |-> "binaries/node-darwin-arm64",
            perm |-> "0755"]}

\* C16: a repack that succeeded has produced a new self-contained artifact:
\* the original's embedded entries with the project store replaced by the
\* bytes read from the store file.
C16_RepackProducesArtifact ==
    repackResult = "ok" => sideFile = Artifact(updatedDB[1])

\* C17: no step of Shutdown or repackBinary changes the running
\* executable's file, whether the repack succeeds or fails.
C17_RunningExecutableUntouched ==
    binFile = Artifact(EmbeddedDB)

\* C17 witness: Shutdown has run to its end with a repack that wrote its
\* output.
C17_Witness ==
    /\ repackResult = "ok"
    /\ sideFile # NoFile
    /\ removeResult = "ok"
    /\ sigPc = "exited"

\* repackBinary returned an error to Shutdown.
RepackFailed == repackResult \in {"readError", "writeError"}

\* Shutdown has returned to the signal goroutine.
ShutdownReturned == sigPc \in {"osExit", "exited"}

\* C18: after a failed repack the session's edits are not lost: when
\* Shutdown has returned, the unpacked store file still exists.
C18_EditsKeptAfterFailedRepack ==
    (ShutdownReturned /\ RepackFailed) => dbFile # NoFile

\* C19: a repack failure does not stop the shutdown sequence: after it
\* Shutdown goes on to the removal of the workspace, it returns only after
\* having attempted the removal, and neither failure changes the exit the
\* signal goroutine makes (code 0).
C19_RepackFailureDoesNotStopShutdown ==
    /\ RepackFailed => sigPc \in {"removeAll", "osExit", "exited"}
    /\ (RepackFailed /\ ShutdownReturned) => removeResult # "none"
    /\ sigPc = "exited" => (exited /\ exitCode = 0)

\* C19 witness: the repack failed, the removal failed too, and the signal
\* goroutine has exited the process with code 0.
C19_Witness ==
    /\ repackResult = "writeError"
    /\ removeResult = "error"
    /\ tempDirExists
    /\ sigPc = "exited"
    /\ exitCode = 0

\* C20: the exit code is 0 exactly on a signal-initiated shutdown and
\* non-zero on a fatal setup failure; a Start that stops only because the
\* termination signal cancelled the session is a shutdown, not a setup
\* failure.
C20_ExitCodes ==
    exited => (exitCode = 0 <=> fatalErr \in {"none", "context canceled"})

\* C21: once the session context is cancelled, the cancellation reaches
\* both background activities: eventually the watcher goroutine has
\* returned (or ended with the process, and polls no more) and the child
\* process is no longer running.
C21_CancellationReachesBoth ==
    cancelled ~> (/\ child # "running"
                  /\ (exited \/ watcherPc \in {"notStarted", "done"}))

\* C22: archive round trip: when the encoding of a directory tree T has
\* been extracted into an empty directory, the extracted tree has the paths
\* of T, with the same kinds, contents and permission bits.
C22_ArchiveRoundTrip ==
    archPc = "done" => ExtractedTree(tree) = srcTree

\* The orders of n entries: the permutations of 1 .. n.
EntryOrders(n) ==
    {p \in [1 .. n -> 1 .. n] : \A i, j \in 1 .. n : i # j => p[i] # p[j]}

\* The tape with its entries in the order p.
Permuted(tape, p) == [k \in 1 .. Len(tape) |-> tape[p[k]]]

\* The entries of the tape have distinct paths.
DistinctPaths(tape) ==
    \A i, j \in 1 .. Len(tape) :
        i # j => Join(TempDir, tape[i].name) # Join(TempDir, tape[j].name)

\* The paths extraction has to find or make as files: the file entries and
\* the files already in the tree.
NeededAsFile(tape, t) ==
    {Join(TempDir, tape[k].name) :
        k \in {i \in 1 .. Len(tape) : tape[i].typeflag # "dir"}}
    \cup {q \in DOMAIN t : t[q].kind = "file"}

\* The paths extraction has to find or make as directories: the directory
\* entries, what lies above any entry, and the directories of the tree.
NeededAsDir(tape, t) ==
    UNION {Prefixes(IF tape[k].typeflag = "dir"
                    THEN Join(TempDir, tape[k].name)
                    ELSE Dir(Join(TempDir, tape[k].name))) :
              k \in 1 .. Len(tape)}
    \cup {q \in DOMAIN t : t[q].kind = "dir"}

\* No path is needed both as a file and as a directory.
ConflictFree(tape, t) == NeededAsFile(tape, t) \cap NeededAsDir(tape, t) = {}

\* C23 as stated: for an archive whose entries have distinct paths,
\* extracting any permutation of the entries succeeds and leaves the tree
\* the extraction of the archive left.
C23_AnyOrder ==
    (archPc # "extracting" /\ DistinctPaths(archive)) =>
        \A p \in EntryOrders(Len(archive)) :
            LET r == extractAll(WorkspaceTree(goos), Permuted(archive, p),
                                umask)
            IN  /\ ~r.failed
                /\ archPc = "done" => r.tree = tree

\* C23 amended: for an archive whose entries have distinct paths and in
\* which no path is needed both as a file and as a directory, on a host
\* that refuses no operation, extracting any permutation of the entries
\* succeeds and leaves the tree the extraction of the archive left.
C23_AnyOrderOfConsistentArchive ==
    (/\ archPc # "extracting"
     /\ DistinctPaths(archive)
     /\ ConflictFree(archive, WorkspaceTree(goos))) =>
        \A p \in EntryOrders(Len(archive)) :
            LET r == extractAll(WorkspaceTree(goos), Permuted(archive, p),
                                umask)
            IN  /\ ~r.failed
                /\ archPc = "done" => r.tree = tree

\* C23 witness: an archive that declares a file before the directory
\* above it has been extracted.
C23_Witness ==
    /\ archPc = "done"
    /\ Len(archive) = MaxEntries
    /\ archive[1].typeflag = "file"
    /\ archive[1].name = <<"node_modules", "pkg", "index.js">>
    /\ archive[Len(archive)].typeflag = "dir"
    /\ archive[Len(archive)].name = <<"node_modules">>
    /\ IsFile(tree, TempDir \o <<"node_modules", "pkg", "index.js">>)
    /\ IsDir(tree, TempDir \o <<"node_modules", "pkg">>)

\* C24: watcher step invariant: once the watcher polls, the recorded
\* fingerprint is the one it read last, and the mutation flag is set if
\* and only if some poll so far read a fingerprint that differed from the
\* one recorded just before it.
C24_WatcherStepInvariant ==
    /\ watcherPc \in {"loop", "done"} => initialHash = readHash
    /\ dbModified <=> pollDiverged

\* C24 witness: a poll has diverged and recorded a fingerprint that is not
\* the one of launch, and a poll has run since the store was last written.
C24_Witness ==
    /\ watcherPc = "loop"
    /\ tickedSinceWrite
    /\ pollDiverged
    /\ dbModified
    /\ readHash \notin {H0, EmptyString}
    /\ initialHash = readHash

\* Shutdown read the mutation flag as false and skipped the repack.
RepackSkipped ==
    /\ sigPc \in {"removeAll", "osExit", "exited"}
    /\ repackResult = "none"

\* C25: the repack decision sees the final value of the mutation flag: once
\* Shutdown has read the flag as false and skipped the repack, the flag is
\* not set, up to and including the exit of the process.
C25_DecisionSeesFinalFlag ==
    RepackSkipped => ~dbModified

\* main is inside env.Start() (main.go:77): Start has not returned.
InStart ==
    mainPc \in {"extractNodeBinary", "extractDatabase", "extractNodeModules",
                "extractDevServer", "startDevServer"}

\* C26: workspace removal never overlaps start-up: Shutdown's removal of
\* the workspace has not executed while Start has not returned, and once
\* the removal has succeeded nothing is in the workspace again, up to and
\* including the exit of the process.
C26_RemovalAfterStart ==
    /\ removeResult # "none" => ~InStart
    /\ removeResult = "ok" =>
          (~tempDirExists /\ wsFiles = {} /\ dbFile = NoFile)

RuntimeBinaryPath == TempDir \o <<nodeExeName(goos)>>
ProjectStorePath == TempDir \o <<"project.db">>

\* C28: extraction of the dependency archive leaves the runtime binary and
\* the project store as extractNodeBinary and extractDatabase wrote them,
\* for every archive, at every turn of the loop and when it has returned.
C28_ExtractedFilesUntouched ==
    archPc # "idle" =>
        /\ IsFile(tree, RuntimeBinaryPath)
        /\ tree[RuntimeBinaryPath] = WorkspaceTree(goos)[RuntimeBinaryPath]
        /\ IsFile(tree, ProjectStorePath)
        /\ tree[ProjectStorePath] = WorkspaceTree(goos)[ProjectStorePath]
====
